---- MODULE Spec2Model ----
(***************************************************************************)
(* cargo2ports / cargoV2forports: two command line tools that turn a       *)
(* Cargo.lock file into a MacPorts cargo.crates stanza.                    *)
(*                                                                         *)
(* Text is modelled character by character: a Python str is a sequence of  *)
(* one-character strings, and the three regular expressions of the source  *)
(* are evaluated with Python's leftmost, greedy, backtracking semantics.   *)
(* A Python dict is a function from keys to values.  A call that may raise *)
(* returns [ok |-> TRUE, val |-> result] or [ok |-> FALSE, val |-> name of *)
(* the exception].                                                         *)
(***************************************************************************)
EXTENDS Integers, Sequences, FiniteSets, TLC

VARIABLES
    tool,                \* which of the two scripts runs
    contents,            \* the text of the lock file
    STANZA_INDENT,       \* module global, set from --indent
    STANZA_FIELD_WIDTH,  \* module global, set from --width (cargo2ports only)
    pc,                  \* where main() stands
    extractor,           \* the extractor main() called
    packages,            \* cargo2ports: list of dicts; cargoV2forports: list of blocks
    stdout, stderr,      \* what the process wrote
    status               \* the exit status, -1 while the process runs

vars == <<tool, contents, STANZA_INDENT, STANZA_FIELD_WIDTH,
          pc, extractor, packages, stdout, stderr, status>>

(***************************************************************************)
(* Characters and string primitives                                        *)
(***************************************************************************)
NL == "\n"
QUOTE == "\""
EQUALS == "="
WHITESPACE == {" ", "\t", "\n", "\r", "\f"}

SetMax(S) == CHOOSE x \in S : \A y \in S : y <= x
SetMin(S) == CHOOSE x \in S : \A y \in S : x <= y

\* n * " " : the empty string when n <= 0
Spaces(n) == [i \in 1..n |-> " "]

\* text[i:i+len(lit)] == lit
LiteralAt(lit, text, i) ==
    /\ i >= 1
    /\ i + Len(lit) - 1 <= Len(text)
    /\ SubSeq(text, i, i + Len(lit) - 1) = lit

\* the first position at or after p that holds no whitespace (\s* taken greedily)
RECURSIVE SkipWS(_, _)
SkipWS(text, p) ==
    IF p <= Len(text) /\ text[p] \in WHITESPACE THEN SkipWS(text, p + 1) ELSE p

\* the position of the first newline at or after p, Len(text) + 1 if there is none
RECURSIVE EndOfLine(_, _)
EndOfLine(text, p) ==
    IF p <= Len(text) /\ text[p] # NL THEN EndOfLine(text, p + 1) ELSE p

\* ^ under re.MULTILINE
AtLineStart(text, p) ==
    IF p = 1 THEN TRUE ELSE IF p - 1 <= Len(text) THEN text[p - 1] = NL ELSE FALSE

\* $ under re.MULTILINE
AtLineEnd(text, p) ==
    IF p = Len(text) + 1 THEN TRUE ELSE IF p <= Len(text) THEN text[p] = NL ELSE FALSE

\* str.split(sep) for a one-character separator
RECURSIVE Split(_, _)
Split(s, sep) ==
    LET hits == {i \in 1..Len(s) : s[i] = sep}
    IN  IF hits = {} THEN <<s>>
        ELSE LET i == SetMin(hits)
             IN  <<SubSeq(s, 1, i - 1)>> \o Split(SubSeq(s, i + 1, Len(s)), sep)

\* sep.join(parts)
RECURSIVE Join(_, _)
Join(parts, sep) ==
    IF parts = <<>> THEN <<>>
    ELSE IF Len(parts) = 1 THEN parts[1]
    ELSE parts[1] \o <<sep>> \o Join(Tail(parts), sep)

\* str.strip(chars)
RECURSIVE LStrip(_, _)
LStrip(s, chars) ==
    IF s # <<>> /\ Head(s) \in chars THEN LStrip(Tail(s), chars) ELSE s

RECURSIVE RStrip(_, _)
RStrip(s, chars) ==
    IF s # <<>> /\ s[Len(s)] \in chars THEN RStrip(SubSeq(s, 1, Len(s) - 1), chars) ELSE s

Strip(s, chars) == RStrip(LStrip(s, chars), chars)

strip_string(s) == Strip(Strip(s, WHITESPACE), {QUOTE})

\* d[k] = v on a dict
DictSet(d, k, v) == [x \in DOMAIN d \cup {k} |-> IF x = k THEN v ELSE d[x]]

EmptyDict == <<>>

Returned(v) == [ok |-> TRUE, val |-> v]
Raised(e) == [ok |-> FALSE, val |-> e]

(***************************************************************************)
(* Literals of the source                                                  *)
(***************************************************************************)
PACKAGE_HEADER == <<"[", "[", "p", "a", "c", "k", "a", "g", "e", "]", "]">>
METADATA_HEADER == <<"[", "m", "e", "t", "a", "d", "a", "t", "a", "]">>
CHECKSUM_PREFIX == <<"\"", "c", "h", "e", "c", "k", "s", "u", "m">>
KEY_NAME == <<"n", "a", "m", "e">>
KEY_VERSION == <<"v", "e", "r", "s", "i", "o", "n">>
KEY_CHECKSUM == <<"c", "h", "e", "c", "k", "s", "u", "m">>
DECLARATION == <<"c", "a", "r", "g", "o", ".", "c", "r", "a", "t", "e", "s", " ", "\\">>
CONTINUATION == <<" ", "\\">>

DEFAULT_INDENT == 4
DEFAULT_FIELD_WIDTH == 38
STANZA_SPACER_WIDTH == 2

(***************************************************************************)
(* block_re: \[\[package\]\]\s*((.+\n)+)(^\s*\n|$)   (re.MULTILINE)        *)
(***************************************************************************)
NoMatch == [start |-> 0, block |-> <<>>, end |-> 0]

\* (.+\n)+ from p: the positions reached after 1, 2, ... whole non-empty lines
RECURSIVE LineEnds(_, _)
LineEnds(text, p) ==
    LET e == EndOfLine(text, p)
    IN  IF p <= Len(text) /\ text[p] # NL /\ e <= Len(text)
        THEN <<e + 1>> \o LineEnds(text, e + 1)
        ELSE <<>>

\* (^\s*\n|$) at p: the position after the match, 0 when neither branch matches
TrailerEnd(text, p) ==
    LET q == SkipWS(text, p)
        nls == {i \in p..(q - 1) : text[i] = NL}
    IN  IF AtLineStart(text, p) /\ nls # {} THEN SetMax(nls) + 1
        ELSE IF AtLineEnd(text, p) THEN p
        ELSE 0

\* the match with \s* ending at p1: the most lines after which the trailer matches
BlockMatchFrom(text, i, p1) ==
    LET ends == LineEnds(text, p1)
        good == {m \in DOMAIN ends : TrailerEnd(text, ends[m]) # 0}
    IN  IF good = {} THEN NoMatch
        ELSE LET m == SetMax(good)
             IN  [start |-> i,
                  block |-> SubSeq(text, p1, ends[m] - 1),
                  end |-> TrailerEnd(text, ends[m])]

\* re.match of block_re at i: \s* as long as possible, shortened on failure
BlockMatchAt(text, i) ==
    IF ~LiteralAt(PACKAGE_HEADER, text, i) THEN NoMatch
    ELSE LET p0 == i + Len(PACKAGE_HEADER)
             gaps == {p1 \in p0..SkipWS(text, p0) : BlockMatchFrom(text, i, p1) # NoMatch}
         IN  IF gaps = {} THEN NoMatch
             ELSE BlockMatchFrom(text, i, SetMax(gaps))

\* re.finditer(block_re, text, re.MULTILINE) from pos: leftmost matches, not overlapping
RECURSIVE BlockFindIter(_, _)
BlockFindIter(text, pos) ==
    LET starts == {i \in pos..Len(text) : BlockMatchAt(text, i) # NoMatch}
    IN  IF starts = {} THEN <<>>
        ELSE LET m == BlockMatchAt(text, SetMin(starts))
             IN  <<m>> \o BlockFindIter(text, m.end)

(***************************************************************************)
(* cargo2ports.py                                                          *)
(***************************************************************************)
RECURSIVE ParseLines(_, _)
ParseLines(lines, parsed) ==
    IF lines = <<>> THEN parsed
    ELSE LET line == Head(lines)
             hits == {i \in 1..Len(line) : line[i] = EQUALS}
         IN  IF hits # {}
             THEN LET i == SetMin(hits)
                      k == strip_string(SubSeq(line, 1, i - 1))
                      v == strip_string(SubSeq(line, i + 1, Len(line)))
                  IN  ParseLines(Tail(lines), DictSet(parsed, k, v))
             ELSE ParseLines(Tail(lines), parsed)

parse_package_block(text) == ParseLines(Split(text, NL), EmptyDict)

\* get_packages keeping only the first record of each name
get_packages_dedup(text) ==
    LET ms == BlockFindIter(text, 1)
        all == [j \in 1..Len(ms) |-> parse_package_block(ms[j].block)]
        first(j) == \A i \in 1..(j - 1) : all[i] # all[j] /\
                        (IF KEY_NAME \in DOMAIN all[i] /\ KEY_NAME \in DOMAIN all[j]
                         THEN all[i][KEY_NAME] # all[j][KEY_NAME] ELSE TRUE)
        keep == {j \in 1..Len(ms) : first(j)}
        RECURSIVE pick(_)
        pick(j) == IF j > Len(ms) THEN <<>>
                   ELSE IF j \in keep THEN <<all[j]>> \o pick(j + 1) ELSE pick(j + 1)
    IN  pick(1)

get_packages(text) ==
    LET ms == BlockFindIter(text, 1)
    IN  [j \in 1..Len(ms) |-> parse_package_block(ms[j].block)]

\* get_crate_line with the overflow test written gap_len < 0
get_crate_line_strict(package_dict) ==
    IF ~({KEY_NAME, KEY_VERSION, KEY_CHECKSUM} \subseteq DOMAIN package_dict)
    THEN Raised("KeyError")
    ELSE LET name == package_dict[KEY_NAME]
             ver == package_dict[KEY_VERSION]
             cksum == package_dict[KEY_CHECKSUM]
             gap == STANZA_FIELD_WIDTH - (Len(name) + Len(ver))
             gap_len == IF gap < 0 THEN 1 ELSE gap
             spacer_width == IF gap < 0 THEN STANZA_SPACER_WIDTH - 1
                             ELSE STANZA_SPACER_WIDTH
         IN  Returned(Spaces(STANZA_INDENT) \o name \o Spaces(gap_len) \o ver
                      \o Spaces(spacer_width) \o cksum)

\* get_crate_line without `spacer_width -= 1`
get_crate_line_full_spacer(package_dict) ==
    IF ~({KEY_NAME, KEY_VERSION, KEY_CHECKSUM} \subseteq DOMAIN package_dict)
    THEN Raised("KeyError")
    ELSE LET name == package_dict[KEY_NAME]
             ver == package_dict[KEY_VERSION]
             cksum == package_dict[KEY_CHECKSUM]
             gap == STANZA_FIELD_WIDTH - (Len(name) + Len(ver))
             gap_len == IF gap <= 0 THEN 1 ELSE gap
         IN  Returned(Spaces(STANZA_INDENT) \o name \o Spaces(gap_len) \o ver
                      \o Spaces(STANZA_SPACER_WIDTH) \o cksum)

get_crate_line(package_dict) ==
    IF ~({KEY_NAME, KEY_VERSION, KEY_CHECKSUM} \subseteq DOMAIN package_dict)
    THEN Raised("KeyError")
    ELSE LET name == package_dict[KEY_NAME]
             ver == package_dict[KEY_VERSION]
             cksum == package_dict[KEY_CHECKSUM]
             gap == STANZA_FIELD_WIDTH - (Len(name) + Len(ver))
             gap_len == IF gap <= 0 THEN 1 ELSE gap
             spacer_width == IF gap <= 0 THEN STANZA_SPACER_WIDTH - 1
                             ELSE STANZA_SPACER_WIDTH
         IN  Returned(Spaces(STANZA_INDENT) \o name \o Spaces(gap_len) \o ver
                      \o Spaces(spacer_width) \o cksum)

\* "" if (count == (num_blocks - 1)) else " \\", count 0-based
Ending(count, num_blocks) ==
    IF count = num_blocks - 1 THEN <<>> ELSE CONTINUATION

\* the loop of generate_crates_stanza from the 0-based index count on
RECURSIVE StanzaLoop(_, _, _)
StanzaLoop(pkg_dicts, count, output) ==
    IF count >= Len(pkg_dicts) THEN Returned(Join(output, NL))
    ELSE LET pkg == pkg_dicts[count + 1]
         IN  IF KEY_CHECKSUM \notin DOMAIN pkg
             THEN StanzaLoop(pkg_dicts, count + 1, output)
             ELSE LET line == get_crate_line(pkg)
                  IN  IF ~line.ok THEN line
                      ELSE StanzaLoop(pkg_dicts, count + 1,
                               Append(output, line.val \o Ending(count, Len(pkg_dicts))))

generate_crates_stanza(pkg_dicts) == StanzaLoop(pkg_dicts, 0, <<DECLARATION>>)

\* re.search("^\[metadata\]", text, re.MULTILINE)
is_v1_lockfile(text) ==
    \E i \in 1..Len(text) : AtLineStart(text, i) /\ LiteralAt(METADATA_HEADER, text, i)

(***************************************************************************)
(* metadata_re (re.MULTILINE), written with a blank between its parts:     *)
(*     ^\[metadata\]  \s*  ( ^ ( (\"checksum \s* .* ) | \s* \n )+ )        *)
(***************************************************************************)
\* the repeated group taken greedily from p: the position it stops at
\* (p itself when not even one repetition matches)
RECURSIVE MetadataGroupEnd(_, _)
MetadataGroupEnd(text, p) ==
    LET q == SkipWS(text, p)
        nls == {i \in p..(q - 1) : text[i] = NL}
    IN  IF LiteralAt(CHECKSUM_PREFIX, text, p)
        THEN MetadataGroupEnd(text,
                 EndOfLine(text, SkipWS(text, p + Len(CHECKSUM_PREFIX))))
        ELSE IF nls # {} THEN MetadataGroupEnd(text, SetMax(nls) + 1)
        ELSE p

\* re.match of metadata_re at i: group 1 as [from, to), <<0, 0>> when there is no match
MetadataMatchAt(text, i) ==
    IF ~(AtLineStart(text, i) /\ LiteralAt(METADATA_HEADER, text, i)) THEN <<0, 0>>
    ELSE LET p0 == i + Len(METADATA_HEADER)
             gaps == {p1 \in p0..SkipWS(text, p0) :
                         AtLineStart(text, p1) /\ MetadataGroupEnd(text, p1) > p1}
         IN  IF gaps = {} THEN <<0, 0>>
             ELSE <<SetMax(gaps), MetadataGroupEnd(text, SetMax(gaps))>>

\* re.search(metadata_re, text, re.MULTILINE)
MetadataSearch(text) ==
    LET starts == {i \in 1..Len(text) : MetadataMatchAt(text, i) # <<0, 0>>}
    IN  IF starts = {} THEN <<0, 0>> ELSE MetadataMatchAt(text, SetMin(starts))

\* re.split("\s+", line)
RECURSIVE SplitWhitespace(_)
SplitWhitespace(line) ==
    LET hits == {i \in 1..Len(line) : line[i] \in WHITESPACE}
    IN  IF hits = {} THEN <<line>>
        ELSE LET i == SetMin(hits)
             IN  <<SubSeq(line, 1, i - 1)>>
                 \o SplitWhitespace(SubSeq(line, SkipWS(line, i), Len(line)))

RECURSIVE MetadataRecords(_)
MetadataRecords(metadata_lines) ==
    IF metadata_lines = <<>> THEN <<>>
    ELSE LET raw == SplitWhitespace(Head(metadata_lines))
             tokens == [j \in 1..Len(raw) |-> strip_string(raw[j])]
         IN  IF Len(raw) >= 6
             THEN <<(KEY_NAME :> tokens[2]) @@ (KEY_VERSION :> tokens[3])
                    @@ (KEY_CHECKSUM :> tokens[6])>>
                  \o MetadataRecords(Tail(metadata_lines))
             ELSE MetadataRecords(Tail(metadata_lines))

get_packages_from_metadata(text) ==
    LET m == MetadataSearch(text)
    IN  IF m = <<0, 0>> THEN <<>>
        ELSE MetadataRecords(Split(SubSeq(text, m[1], m[2] - 1), NL))

(***************************************************************************)
(* cargoV2forports.py                                                      *)
(***************************************************************************)
get_package_blocks(text) ==
    LET ms == BlockFindIter(text, 1)
    IN  [j \in 1..Len(ms) |-> ms[j].block]

\* k and v are assigned only by a line holding "=", and the insertion runs for
\* every line: before the first such line k and v are unbound
RECURSIVE ParseLinesV2(_, _, _, _, _)
ParseLinesV2(lines, parsed, bound, k, v) ==
    IF lines = <<>> THEN Returned(parsed)
    ELSE LET line == Head(lines)
             hits == {i \in 1..Len(line) : line[i] = EQUALS}
             i == SetMin(hits)
             k2 == IF hits # {} THEN SubSeq(line, 1, i - 1) ELSE k
             v2 == IF hits # {} THEN SubSeq(line, i + 1, Len(line)) ELSE v
         IN  IF hits = {} /\ ~bound THEN Raised("UnboundLocalError")
             ELSE ParseLinesV2(Tail(lines),
                               DictSet(parsed, strip_string(k2), strip_string(v2)),
                               TRUE, k2, v2)

parse_package_block_V2(text) ==
    ParseLinesV2(Split(text, NL), EmptyDict, FALSE, <<>>, <<>>)

get_crate_line_V2(block_dict) ==
    IF ~({KEY_NAME, KEY_VERSION, KEY_CHECKSUM} \subseteq DOMAIN block_dict)
    THEN Raised("KeyError")
    ELSE LET name == block_dict[KEY_NAME]
             ver == block_dict[KEY_VERSION]
             cksum == block_dict[KEY_CHECKSUM]
             gap == STANZA_FIELD_WIDTH - (Len(name) + Len(ver))
             gap_len == IF gap <= 0 THEN 1 ELSE gap
             spacer_width == IF gap <= 0 THEN STANZA_SPACER_WIDTH - 1
                             ELSE STANZA_SPACER_WIDTH
         IN  Returned(Spaces(STANZA_INDENT) \o name \o Spaces(gap_len) \o ver
                      \o Spaces(spacer_width) \o cksum)

RECURSIVE StanzaLoopV2(_, _, _)
StanzaLoopV2(blocks_dict_list, count, output) ==
    IF count >= Len(blocks_dict_list) THEN Returned(Join(output, NL))
    ELSE LET block == parse_package_block_V2(blocks_dict_list[count + 1])
         IN  IF ~block.ok THEN block
             ELSE IF KEY_CHECKSUM \notin DOMAIN block.val
             THEN StanzaLoopV2(blocks_dict_list, count + 1, output)
             ELSE LET line == get_crate_line_V2(block.val)
                  IN  IF ~line.ok THEN line
                      ELSE StanzaLoopV2(blocks_dict_list, count + 1,
                               Append(output,
                                      line.val \o Ending(count, Len(blocks_dict_list))))

generate_crates_stanza_V2(blocks_dict_list) ==
    StanzaLoopV2(blocks_dict_list, 0, <<DECLARATION>>)

(***************************************************************************)
(* Inputs: lock file texts built from whole lines                          *)
(***************************************************************************)
LINE_NAME_A ==
    <<"n", "a", "m", "e", " ", "=", " ", "\"", "a", "\"">>
LINE_NAME_BB ==
    <<"n", "a", "m", "e", " ", "=", " ", "\"", "b", "b", "\"">>
LINE_VERSION_1 ==
    <<"v", "e", "r", "s", "i", "o", "n", " ", "=", " ", "\"", "1", "\"">>
LINE_VERSION_22 ==
    <<"v", "e", "r", "s", "i", "o", "n", " ", "=", " ", "\"", "2", "2", "\"">>
LINE_VERSION_3 ==
    <<"v", "e", "r", "s", "i", "o", "n", " ", "=", " ", "\"", "3", "\"">>
LINE_CHECKSUM_C1 ==
    <<"c", "h", "e", "c", "k", "s", "u", "m", " ", "=", " ", "\"", "c", "1", "\"">>
LINE_CHECKSUM_C2 ==
    <<"c", "h", "e", "c", "k", "s", "u", "m", " ", "=", " ", "\"", "c", "2", "\"">>
LINE_CHECKSUM_C3 ==
    <<"c", "h", "e", "c", "k", "s", "u", "m", " ", "=", " ", "\"", "c", "3", "\"">>
LINE_DEPENDENCIES ==
    <<"d", "e", "p", "e", "n", "d", "e", "n", "c", "i", "e", "s", " ", "=", " ", "[">>
LINE_DEPENDENCY ==
    <<" ", "\"", "a", "\"", ",">>
LINE_CLOSE ==
    <<"]">>
LINE_METADATA_A ==
    <<"\"", "c", "h", "e", "c", "k", "s", "u", "m", " ", "a", " ", "1", " ", "(", "s", ")", "\"", " ", "=", " ", "\"", "d", "1", "\"">>
LINE_METADATA_BB ==
    <<"\"", "c", "h", "e", "c", "k", "s", "u", "m", " ", "b", "b", " ", "2", "2", " ", "(", "s", ")", "\"", " ", "=", " ", "\"", "d", "2", "\"">>
LINE_METADATA_JUNK ==
    <<"[", "m", "e", "t", "a", "d", "a", "t", "a", "]", "x">>

\* the lines, each followed by a newline
RECURSIVE Chunk(_)
Chunk(lines) == IF lines = <<>> THEN <<>> ELSE Head(lines) \o <<NL>> \o Chunk(Tail(lines))

FULL_A == Chunk(<<PACKAGE_HEADER, LINE_NAME_A, LINE_VERSION_1, LINE_CHECKSUM_C1>>)
FULL_BB == Chunk(<<PACKAGE_HEADER, LINE_NAME_BB, LINE_VERSION_22, LINE_CHECKSUM_C2,
                   LINE_DEPENDENCIES, LINE_DEPENDENCY, LINE_CLOSE>>)
NO_CHECKSUM == Chunk(<<PACKAGE_HEADER, LINE_NAME_A, LINE_VERSION_3>>)
HEADER_ONLY == Chunk(<<PACKAGE_HEADER>>)
CHECKSUM_ONLY == Chunk(<<LINE_CHECKSUM_C3>>)

METADATA_A == Chunk(<<METADATA_HEADER, LINE_METADATA_A>>)
METADATA_BB == Chunk(<<LINE_METADATA_BB>>)
METADATA_ONLY == Chunk(<<METADATA_HEADER>>)
METADATA_JUNK == Chunk(<<LINE_METADATA_JUNK>>)
METADATA_INDENTED == Chunk(<<<<" ">> \o METADATA_HEADER>>)

\* every kind of chunk: whole and broken package blocks, a legacy section
FullPool == {FULL_A, FULL_BB, NO_CHECKSUM, HEADER_ONLY, CHECKSUM_ONLY,
             METADATA_A, METADATA_BB}
\* package blocks as cargo writes them
BlockPool == {FULL_A, FULL_BB, NO_CHECKSUM}
\* package blocks as cargo writes them, and a header with nothing under it
HeaderPool == {FULL_A, NO_CHECKSUM, HEADER_ONLY}
\* lines that look like a [metadata] header, or nearly
RoutingPool == {METADATA_ONLY, METADATA_JUNK, METADATA_INDENTED, METADATA_BB, NO_CHECKSUM}

MaxChunks == 3

\* every text of at most n chunks of the pool, each followed or not by a blank line
RECURSIVE Texts(_, _)
Texts(pool, n) ==
    IF n = 0 THEN {<<>>}
    ELSE LET shorter == Texts(pool, n - 1)
         IN  shorter \cup {t \o c \o s : t \in shorter, c \in pool, s \in {<<>>, <<NL>>}}

\* the same text without its final newline
Unterminated(t) ==
    IF t # <<>> /\ t[Len(t)] = NL THEN SubSeq(t, 1, Len(t) - 1) ELSE t

Inputs(pool, n) == Texts(pool, n) \cup {Unterminated(t) : t \in Texts(pool, n)}

TOOLS == {"cargo2ports", "cargoV2forports"}

\* values given to --indent and --width
IndentArgs == {DEFAULT_INDENT}
WidthArgs == {DEFAULT_FIELD_WIDTH, 3}

\* the process as it starts on the lock file `contents`
Start(tools, texts) ==
    /\ tool \in tools
    /\ contents \in texts
    /\ STANZA_INDENT = DEFAULT_INDENT
    /\ STANZA_FIELD_WIDTH = DEFAULT_FIELD_WIDTH
    /\ pc = "args"
    /\ extractor = "none"
    /\ packages = <<>>
    /\ stdout = <<>>
    /\ stderr = ""
    /\ status = -1

Init == Start(TOOLS, Inputs(FullPool, MaxChunks))

InitCurrent == Start({"cargo2ports"}, Inputs(BlockPool, MaxChunks))

InitBlocks == Start({"cargoV2forports"}, Inputs(HeaderPool, MaxChunks))

InitRouting == Start({"cargo2ports"}, Inputs(RoutingPool, MaxChunks))

(***************************************************************************)
(* Inputs of get_crate_line alone                                          *)
(***************************************************************************)
MaxLen == 2
MaxIndent == 2
MaxWidth == 4

Repeat(c, n) == [i \in 1..n |-> c]

\* short names, and names about as long as the default field is wide
NameLens == (0..MaxLen) \cup ((DEFAULT_FIELD_WIDTH - MaxLen)..DEFAULT_FIELD_WIDTH)
VersionLens == 0..MaxLen
LineIndents == (-1)..MaxIndent
LineWidths == ((-1)..MaxWidth) \cup {DEFAULT_FIELD_WIDTH}
LINE_CHECKSUM == <<"c", "f">>

LineRecord(n, v) ==
    (KEY_NAME :> Repeat("a", n)) @@ (KEY_VERSION :> Repeat("1", v))
    @@ (KEY_CHECKSUM :> LINE_CHECKSUM)

\* one record, the globals as main() may have set them (cargoV2forports has no --width)
InitLine ==
    /\ tool \in TOOLS
    /\ contents = <<>>
    /\ STANZA_INDENT \in LineIndents
    /\ STANZA_FIELD_WIDTH \in (IF tool = "cargo2ports" THEN LineWidths
                                                      ELSE {DEFAULT_FIELD_WIDTH})
    /\ pc = "line"
    /\ extractor = "none"
    /\ packages \in {<<LineRecord(n, v)>> : n \in NameLens, v \in VersionLens}
    /\ stdout = <<>>
    /\ stderr = ""
    /\ status = -1

(***************************************************************************)
(* main(), both tools.  The character sequence `contents` is what         *)
(* read_open_file returns.                                                 *)
(***************************************************************************)
NO_PACKAGES == "No package definitions found: either not a Cargo.lock file, or file is empty."

\* argparse: -i/--indent and (cargo2ports only) -w/--width, both type=int
ParseArgs ==
    /\ pc = "args"
    /\ \E i \in IndentArgs : STANZA_INDENT' = i
    /\ IF tool = "cargo2ports"
       THEN \E w \in WidthArgs : STANZA_FIELD_WIDTH' = w
       ELSE UNCHANGED STANZA_FIELD_WIDTH
    /\ pc' = "extract"
    /\ UNCHANGED <<tool, contents, extractor, packages, stdout, stderr, status>>

ExtractLegacy ==
    /\ pc = "extract"
    /\ tool = "cargo2ports"
    /\ is_v1_lockfile(contents)
    /\ packages' = get_packages_from_metadata(contents)
    /\ extractor' = "get_packages_from_metadata"
    /\ pc' = "check"
    /\ UNCHANGED <<tool, contents, STANZA_INDENT, STANZA_FIELD_WIDTH, stdout, stderr, status>>

ExtractCurrent ==
    /\ pc = "extract"
    /\ tool = "cargo2ports"
    /\ ~is_v1_lockfile(contents)
    /\ packages' = get_packages(contents)
    /\ extractor' = "get_packages"
    /\ pc' = "check"
    /\ UNCHANGED <<tool, contents, STANZA_INDENT, STANZA_FIELD_WIDTH, stdout, stderr, status>>

ExtractBlocks ==
    /\ pc = "extract"
    /\ tool = "cargoV2forports"
    /\ packages' = get_package_blocks(contents)
    /\ extractor' = "get_package_blocks"
    /\ pc' = "check"
    /\ UNCHANGED <<tool, contents, STANZA_INDENT, STANZA_FIELD_WIDTH, stdout, stderr, status>>

\* fatal(...): the message on standard error, sys.exit(1)
Fatal ==
    /\ pc = "check"
    /\ packages = <<>>
    /\ stderr' = NO_PACKAGES
    /\ status' = 1
    /\ pc' = "exit"
    /\ UNCHANGED <<tool, contents, STANZA_INDENT, STANZA_FIELD_WIDTH, extractor, packages, stdout>>

Stanza ==
    IF tool = "cargo2ports" THEN generate_crates_stanza(packages)
    ELSE generate_crates_stanza_V2(packages)

\* output = generate_crates_stanza(...); print(output); the interpreter exits 0
PrintStanza ==
    /\ pc = "check"
    /\ packages # <<>>
    /\ Stanza.ok
    /\ stdout' = Stanza.val \o <<NL>>
    /\ status' = 0
    /\ pc' = "exit"
    /\ UNCHANGED <<tool, contents, STANZA_INDENT, STANZA_FIELD_WIDTH, extractor, packages, stderr>>

\* generate_crates_stanza raises: nothing is printed, the interpreter writes the
\* traceback to standard error and exits 1
Uncaught ==
    /\ pc = "check"
    /\ packages # <<>>
    /\ ~Stanza.ok
    /\ stderr' = "Traceback: " \o Stanza.val
    /\ status' = 1
    /\ pc' = "exit"
    /\ UNCHANGED <<tool, contents, STANZA_INDENT, STANZA_FIELD_WIDTH, extractor, packages, stdout>>

Next ==
    \/ ParseArgs
    \/ ExtractLegacy
    \/ ExtractCurrent
    \/ ExtractBlocks
    \/ Fatal
    \/ PrintStanza
    \/ Uncaught

Spec == Init /\ [][Next]_vars

\* cargo2ports on texts made of package blocks only
NextCurrent ==
    \/ ParseArgs
    \/ ExtractCurrent
    \/ Fatal
    \/ PrintStanza

SpecCurrent == InitCurrent /\ [][NextCurrent]_vars

\* cargoV2forports on package blocks and bare headers
NextBlocks ==
    \/ ParseArgs
    \/ ExtractBlocks
    \/ Fatal
    \/ PrintStanza
    \/ Uncaught

SpecBlocks == InitBlocks /\ [][NextBlocks]_vars

\* cargo2ports on texts with and without [metadata] lines
NextRouting ==
    \/ ParseArgs
    \/ ExtractLegacy
    \/ ExtractCurrent
    \/ Fatal
    \/ PrintStanza

SpecRouting == InitRouting /\ [][NextRouting]_vars

\* get_crate_line applied to the record
RenderLine ==
    /\ pc = "line"
    /\ stdout' = (IF tool = "cargo2ports" THEN get_crate_line(packages[1])
                                          ELSE get_crate_line_V2(packages[1])).val
    /\ pc' = "rendered"
    /\ UNCHANGED <<tool, contents, STANZA_INDENT, STANZA_FIELD_WIDTH, extractor,
                   packages, stderr, status>>

NextLine == RenderLine

SpecLine == InitLine /\ [][NextLine]_vars

(***************************************************************************)
(* The lock file read line by line, as the format is described: what the   *)
(* properties below compare the extractors with                            *)
(***************************************************************************)
IsPrefix(p, t) == Len(p) <= Len(t) /\ SubSeq(t, 1, Len(p)) = p
IsSuffix(p, t) == Len(p) <= Len(t) /\ SubSeq(t, Len(t) - Len(p) + 1, Len(t)) = p

\* the lines of a text; a final newline ends the last line and starts no other
DocLines(text) ==
    LET parts == Split(text, NL)
    IN  IF parts[Len(parts)] = <<>> THEN SubSeq(parts, 1, Len(parts) - 1) ELSE parts

\* the lines from index h on, up to the first blank line or the end
RECURSIVE BodyFrom(_, _)
BodyFrom(lines, h) ==
    IF h > Len(lines) THEN <<>>
    ELSE IF lines[h] = <<>> THEN <<>>
    ELSE <<lines[h]>> \o BodyFrom(lines, h + 1)

\* one block per [[package]] header line from index h on: the lines under the header
RECURSIVE BlocksFrom(_, _)
BlocksFrom(lines, h) ==
    IF h > Len(lines) THEN <<>>
    ELSE IF lines[h] = PACKAGE_HEADER
    THEN <<BodyFrom(lines, h + 1)>> \o BlocksFrom(lines, h + 1)
    ELSE BlocksFrom(lines, h + 1)

DocBlocks(text) == BlocksFrom(DocLines(text), 1)

\* every header line is the first line or follows a blank line
HeadersSeparated(text) ==
    LET lines == DocLines(text)
    IN  \A h \in 1..Len(lines) :
            lines[h] = PACKAGE_HEADER => IF h = 1 THEN TRUE ELSE lines[h - 1] = <<>>

\* well-formed current-format text: newline-terminated, nothing but package blocks
\* and blank lines, each block after a blank line (or first) and holding a name and
\* a version
WellFormed(text) ==
    LET lines == DocLines(text)
        blocks == DocBlocks(text)
    IN  /\ IF text = <<>> THEN TRUE ELSE text[Len(text)] = NL
        /\ HeadersSeparated(text)
        /\ \A h \in 1..Len(lines) :
              lines[h] \notin {<<>>, PACKAGE_HEADER} => IF h = 1 THEN FALSE ELSE lines[h - 1] # <<>>
        /\ \A j \in 1..Len(blocks) :
              {KEY_NAME, KEY_VERSION} \subseteq DOMAIN parse_package_block(Chunk(blocks[j]))

RECURSIVE SelectSeqChecksum(_)
SelectSeqChecksum(records) ==
    IF records = <<>> THEN <<>>
    ELSE IF KEY_CHECKSUM \in DOMAIN Head(records)
    THEN <<Head(records)>> \o SelectSeqChecksum(Tail(records))
    ELSE SelectSeqChecksum(Tail(records))

\* the records of the blocks, and those among them that carry a checksum
DocRecords(text) ==
    LET blocks == DocBlocks(text)
    IN  [j \in 1..Len(blocks) |-> parse_package_block(Chunk(blocks[j]))]

DocRenderable(text) == SelectSeqChecksum(DocRecords(text))

\* the package lines of a stanza: all its lines but the declaration
PackageLines(stanza) == Tail(Split(stanza, NL))

\* what was printed, without the newline print() adds
Printed == SubSeq(stdout, 1, Len(stdout) - 1)

(***************************************************************************)
(* Properties of the drivers (Spec, SpecCurrent, SpecRouting)              *)
(***************************************************************************)
\* C1: when at least one package line is printed, exactly the last one lacks the
\* trailing " \" and every other one ends with it, also when the records after the
\* last one with a checksum have none.
C1_LastLineOnly ==
    (pc = "exit" /\ status = 0) =>
        LET lines == PackageLines(Printed)
        IN  \A j \in 1..Len(lines) : IsSuffix(CONTINUATION, lines[j]) <=> j < Len(lines)

\* C2: for well-formed current-format text, get_packages followed by
\* generate_crates_stanza gives the declaration line and then exactly one line per
\* block with a checksum, in document order; blocks without a checksum give no
\* line, and blocks repeating a name are all there.
C2_OneLinePerChecksum ==
    (pc = "check" /\ extractor = "get_packages" /\ WellFormed(contents)) =>
        LET want == DocRenderable(contents)
            got == generate_crates_stanza(packages)
        IN  /\ got.ok
            /\ Split(got.val, NL)[1] = DECLARATION
            /\ Len(PackageLines(got.val)) = Len(want)
            /\ \A j \in 1..Len(want) :
                  IsPrefix(get_crate_line(want[j]).val, PackageLines(got.val)[j])

\* three well-formed blocks: two with a checksum and the same name, one without
C2_Witness ==
    /\ pc = "check" /\ extractor = "get_packages" /\ WellFormed(contents)
    /\ Len(DocRecords(contents)) > Len(DocRenderable(contents))
    /\ Len(DocRenderable(contents)) >= 2
    /\ DocRenderable(contents)[1][KEY_NAME] = DocRenderable(contents)[2][KEY_NAME]

\* C3: a run ends in one of two ways: no record was extracted, and the diagnostic is
\* on standard error, the status is 1 and standard output is empty; or the stanza
\* is on standard output and the status is 0.
C3_TwoOutcomes ==
    pc = "exit" =>
        IF packages = <<>>
        THEN stderr = NO_PACKAGES /\ status = 1 /\ stdout = <<>>
        ELSE status = 0 /\ stdout # <<>> /\ stderr = ""

\* the records of a run that carry a checksum
Renderable ==
    IF tool = "cargo2ports" THEN SelectSeqChecksum(packages)
    ELSE SelectSeqChecksum([j \in 1..Len(packages) |-> parse_package_block(packages[j])])

\* C4: with no record carrying a checksum the driver fails: it does not print the
\* declaration line alone and does not exit with status 0.
C4_FailsFast ==
    (pc = "exit" /\ Renderable = <<>>) =>
        status # 0 /\ stdout # DECLARATION \o <<NL>>

\* a line that is nothing but the [metadata] header (trailing blanks aside)
IsMetadataHeader(line) == RStrip(line, WHITESPACE) = METADATA_HEADER

HasMetadataHeaderLine(text) ==
    \E h \in 1..Len(DocLines(text)) : IsMetadataHeader(DocLines(text)[h])

Routed == pc \in {"check", "exit"} /\ tool = "cargo2ports"

\* C6: the legacy extractor is called if and only if some line is exactly a
\* [metadata] header, whether or not the text also holds [[package]] tables, and
\* the current-format extractor otherwise.
C6_RoutedByHeaderLine ==
    Routed =>
        /\ extractor = "get_packages_from_metadata" <=> HasMetadataHeaderLine(contents)
        /\ extractor = "get_packages" <=> ~HasMetadataHeaderLine(contents)

\* C7: when every [[package]] header line is the first line or follows a blank line,
\* the extractor yields one block per header line, in document order, holding the
\* lines between the header and the next blank line or the end of the file: an empty
\* block for a header with no line under it, and the whole last block when the
\* file's last line has no newline.
C7_OneBlockPerHeader ==
    (pc = "check" /\ extractor = "get_package_blocks" /\ HeadersSeparated(contents)) =>
        LET want == DocBlocks(contents)
        IN  /\ Len(packages) = Len(want)
            /\ \A j \in 1..Len(want) : DocLines(packages[j]) = want[j]

\* the [metadata] section read line by line: the lines under the first [metadata]
\* header up to the next line opening a table
RECURSIVE SectionFrom(_, _)
SectionFrom(lines, h) ==
    IF h > Len(lines) THEN <<>>
    ELSE IF IsPrefix(<<"[">>, lines[h]) THEN <<>>
    ELSE <<lines[h]>> \o SectionFrom(lines, h + 1)

MetadataSection(text) ==
    LET lines == DocLines(text)
        heads == {h \in 1..Len(lines) : IsMetadataHeader(lines[h])}
    IN  IF heads = {} THEN <<>> ELSE SectionFrom(lines, SetMin(heads) + 1)

RECURSIVE ChecksumRecords(_)
ChecksumRecords(lines) ==
    IF lines = <<>> THEN <<>>
    ELSE LET raw == SplitWhitespace(Head(lines))
         IN  IF IsPrefix(CHECKSUM_PREFIX, Head(lines)) /\ Len(raw) >= 6
             THEN <<(KEY_NAME :> strip_string(raw[2]))
                    @@ (KEY_VERSION :> strip_string(raw[3]))
                    @@ (KEY_CHECKSUM :> strip_string(raw[6]))>>
                  \o ChecksumRecords(Tail(lines))
             ELSE ChecksumRecords(Tail(lines))

\* C8: get_packages_from_metadata returns one record per checksum line of the
\* [metadata] section, in document order, from tokens 1, 2 and 5; any other line of
\* the section gives no record and does not keep later checksum lines out.
C8_OneRecordPerChecksumLine ==
    (pc = "check" /\ extractor = "get_packages_from_metadata") =>
        packages = ChecksumRecords(MetadataSection(contents))

\* C9: on every block the parser of cargoV2forports returns, without raising, the
\* map the parser of cargo2ports returns (the entries of the lines holding "=").
C9_SameRecord ==
    (pc = "check" /\ extractor = "get_package_blocks") =>
        \A j \in 1..Len(packages) :
            /\ parse_package_block_V2(packages[j]).ok
            /\ parse_package_block_V2(packages[j]).val = parse_package_block(packages[j])

(***************************************************************************)
(* Properties of get_crate_line (SpecLine)                                 *)
(***************************************************************************)
NonNegative(n) == IF n < 0 THEN 0 ELSE n

RenderedName == packages[1][KEY_NAME]
RenderedVersion == packages[1][KEY_VERSION]
RenderedGap == STANZA_FIELD_WIDTH - (Len(RenderedName) + Len(RenderedVersion))

\* line is: indent spaces, name, gap spaces, version, spacer spaces, checksum
Layout(line, indent, name, gap, ver, spacer, cksum) ==
    /\ indent >= 0 /\ gap >= 0 /\ spacer >= 0
    /\ Len(line) = indent + Len(name) + gap + Len(ver) + spacer + Len(cksum)
    /\ \A i \in 1..Len(line) :
         LET a == indent
             b == a + Len(name)
             c == b + gap
             d == c + Len(ver)
             e == d + spacer
         IN  line[i] = IF i <= a THEN " "
                       ELSE IF i <= b THEN name[i - a]
                       ELSE IF i <= c THEN " "
                       ELSE IF i <= d THEN ver[i - c]
                       ELSE IF i <= e THEN " "
                       ELSE cksum[i - e]

PaddedLayout(indent) ==
    IF RenderedGap > 0
    THEN Layout(stdout, indent, RenderedName, RenderedGap, RenderedVersion,
                STANZA_SPACER_WIDTH, LINE_CHECKSUM)
    ELSE Layout(stdout, indent, RenderedName, 1, RenderedVersion,
                STANZA_SPACER_WIDTH - 1, LINE_CHECKSUM)

\* C5 as stated: the rendered line is STANZA_INDENT spaces, the name, the gap (gap
\* spaces if gap > 0, else exactly 1), the version, the spacer (STANZA_SPACER_WIDTH
\* spaces if gap > 0, else one less), the checksum.  A negative --indent breaks it:
\* no line starts with a negative number of spaces.
C5_Original == pc = "rendered" => PaddedLayout(STANZA_INDENT)

\* C5 amended: the same layout, the indentation being STANZA_INDENT spaces when that
\* is positive and none otherwise.
C5_Padding == pc = "rendered" => PaddedLayout(NonNegative(STANZA_INDENT))

\* a rendered line whose name and version fill the field exactly
C5_Witness == pc = "rendered" /\ RenderedGap = 0 /\ Len(RenderedName) > 0

\* 0-based offset of the checksum in the line (no name or version holds a "c")
ChecksumOffset(line) == SetMin({i \in 1..Len(line) : line[i] = "c"}) - 1

Aligned(indent) ==
    LET used == Len(RenderedName) + Len(RenderedVersion)
        off == ChecksumOffset(stdout)
    IN  /\ used <= STANZA_FIELD_WIDTH
           => off = indent + STANZA_FIELD_WIDTH + STANZA_SPACER_WIDTH
        /\ used > STANZA_FIELD_WIDTH
           => /\ off = indent + used + STANZA_SPACER_WIDTH
              /\ off > indent + STANZA_FIELD_WIDTH + STANZA_SPACER_WIDTH
        \* a space after the name and a space before the checksum
        /\ stdout[NonNegative(STANZA_INDENT) + Len(RenderedName) + 1] = " "
        /\ stdout[off] = " "

\* C10 as stated: the checksum starts at offset STANZA_INDENT + STANZA_FIELD_WIDTH +
\* STANZA_SPACER_WIDTH when name and version fit the field (the boundary included),
\* at STANZA_INDENT + len(name) + len(version) + STANZA_SPACER_WIDTH, which is
\* further right, when they do not, and the three fields are at least one space
\* apart.  A negative --indent breaks the offsets.
C10_Original == pc = "rendered" => Aligned(STANZA_INDENT)

\* C10 amended: the same offsets counted from the indentation actually written,
\* STANZA_INDENT when positive and 0 otherwise.
C10_Alignment == pc = "rendered" => Aligned(NonNegative(STANZA_INDENT))

\* a rendered line of the boundary case, where the clamped gap and the shorter
\* spacer compensate each other
C10_Witness ==
    /\ pc = "rendered"
    /\ Len(RenderedName) + Len(RenderedVersion) = STANZA_FIELD_WIDTH
    /\ tool = "cargoV2forports"

====
